---- MODULE Spec2Model ----
(***************************************************************************)
(* Model of the model evaluation panel                                     *)
(* (plugins/panels/model_evaluation.py, class EvaluationPanel).            *)
(*                                                                         *)
(* Six specifications share the variables below:                           *)
(*   SpecPending     the pending-evaluations tracker: the handlers         *)
(*                   load_pending_evaluations and on_evaluate_model_success *)
(*                   against a dataset whose evaluation list changes;      *)
(*   SpecEvaluation  load_evaluation and the results cache against a       *)
(*                   fixed dataset;                                        *)
(*   SpecView        load_view (the drill-down) on the evaluations that    *)
(*                   load_evaluation has published;                        *)
(*   SpecSessions    the same two handlers run by two sessions, one store  *)
(*                   read or write at a time;                              *)
(*   SpecMetrics     the pure aggregation functions get_tp_fp_fn and       *)
(*                   get_confusion_matrices over bounded results views;    *)
(*   SpecConfidence  get_per_class_metrics and get_avg_confidence over     *)
(*                   results views that carry confidences.                 *)
(*                                                                         *)
(* Python None is the string NONE where the value is a string, and the     *)
(* empty tuple << >> where it is a record or a collection (Some(v) is      *)
(* <<v>>).                                                                 *)
(***************************************************************************)
EXTENDS Integers, Sequences, FiniteSets, TLC

VARIABLES
    evaluations,     \* dataset._doc.evaluations: eval_key -> << >> or <<run doc>>
    store,           \* ctx.store(STORE_NAME): store key -> << >> or <<value>>
    panel_data,      \* ctx.panel.set_data(...): what the panel has published
    panel_state,     \* ctx.panel state "missing" (<< >> while never set)
    view,            \* the view last handed to ctx.ops.set_view / clear_view
    enable_caching,  \* the module constant ENABLE_CACHING, fixed at import
    history,         \* the last two handler invocations and the calls they made
    results,         \* SpecMetrics: the results view handed to the aggregator
    info,            \* SpecMetrics: info.config of that evaluation
    out,             \* SpecMetrics: what the aggregation function returned
    sessions         \* SpecSessions: each session's position in its handler,
                     \* the values it has read and the data its panel shows

vars == <<evaluations, store, panel_data, panel_state, view, enable_caching,
          history, results, info, out, sessions>>

----------------------------------------------------------------------------
(* Bounds of the model *)

\* longest stored pending list a submission may still extend
MaxPending == 3
\* longest ytrue / ypred of a results view in SpecMetrics
MaxItems == 2
\* most submissions the sessions of SpecSessions make in all
MaxSubmits == 2

----------------------------------------------------------------------------
(* Values *)

NONE == "None"
STORE_NAME == "model_evaluation_panel_builtin"
SUPPORTED_EVALUATION_TYPES == {"classification", "detection", "segmentation"}
DEFAULT_MISSING == "(none)"

\* the evaluation keys of the dataset, in the order list_evaluations reports them
Keys == <<"k1", "k2">>
KeySet == {Keys[i] : i \in 1..Len(Keys)}
DatasetId == "ds1"
\* delegated-operation document ids a submission may carry (NONE: immediate run)
DocIds == {NONE, "op1"}


\* the sessions that have the panel open on the dataset
Sessions == {"s1", "s2"}
\* a session between handlers: nothing read, nothing published; quiet is set
\* while the session's last reconcile ran with no other step since its start,
\* stale when a store.set of its last handler replaced a list that had changed
\* since the session read it
IdleSession ==
    [pc |-> "idle", dict |-> << >>, eval_keys |-> << >>, pending |-> << >>,
     submits |-> 0, sets |-> 0, quiet |-> FALSE, stale |-> FALSE]
IdleSessions == [s \in Sessions |-> IdleSession]

Some(v) == <<v>>
IsNone(o) == o = << >>

Range(s) == {s[i] : i \in 1..Len(s)}

----------------------------------------------------------------------------
(* The record kept of a handler invocation: which handler, with which key   *)
(* and id, and the collaborator calls it made.                              *)

Event(op, key, id, sets, loaded, got, put, pending) ==
    [op |-> op, key |-> key, id |-> id,
     sets |-> sets,        \* store.set("pending_evaluations", ...) calls made
     loaded |-> loaded,    \* dataset.load_evaluation_results was called
     got |-> got,          \* store.get(<evaluation id>) was called
     put |-> put,          \* store.set(<evaluation id>, ...) was called
     pending |-> pending]  \* the pending_evaluations sequence it published

NoEvent == Event("init", NONE, NONE, 0, FALSE, FALSE, FALSE, << >>)
Record(e) == <<history[2], e>>
Last == history[2]
Prev == history[1]

----------------------------------------------------------------------------
(* MetricsAggregator: the pure functions over a results view                *)
(* [classes, ytrue, ypred, missing] and an evaluation config [type, method] *)

\* the labels of the model in Python's string order, which sorted() follows
LabelOrder == <<"(none)", "bg", "cat", "dog", "emu">>
LabelRank(l) == CHOOSE i \in 1..Len(LabelOrder) : LabelOrder[i] = l
ClassLabels == {"cat", "dog", "emu"}

\* np.count_nonzero over the positions of two equal-length label sequences
CountPositions(ytrue, ypred, yt, yp) ==
    Cardinality({p \in 1..Len(ytrue) : ytrue[p] = yt /\ ypred[p] = yp})

\* x placed behind every element of the sorted sequence whose key is <= its own
RECURSIVE InsertSorted(_, _, _)
InsertSorted(sorted, x, key) ==
    IF sorted = << >> THEN <<x>>
    ELSE IF key[Head(sorted)] <= key[x]
         THEN <<Head(sorted)>> \o InsertSorted(Tail(sorted), x, key)
         ELSE <<x>> \o sorted

\* sorted(seq, key=key.get): stable, ascending
RECURSIVE SortedBy(_, _)
SortedBy(seq, key) ==
    IF seq = << >> THEN << >>
    ELSE InsertSorted(SortedBy(SubSeq(seq, 1, Len(seq) - 1), key),
                      seq[Len(seq)], key)

\* sorted(seq, key=key.get, reverse=True): descending, equal keys keep their order
SortedByReverse(seq, key) ==
    SortedBy(seq, [x \in DOMAIN key |-> 0 - key[x]])

\* sorted(labels) and sorted(labels, reverse=True) of a list of strings
sorted(labels) ==
    SortedBy(labels, [l \in Range(labels) |-> LabelRank(l)])
sorted_reverse(labels) ==
    SortedByReverse(labels, [l \in Range(labels) |-> LabelRank(l)])

\* the keys of Counter(ytrue), in the order the Counter holds them (first seen)
RECURSIVE FirstSeen(_)
FirstSeen(seq) ==
    IF seq = << >> THEN << >>
    ELSE LET front == FirstSeen(SubSeq(seq, 1, Len(seq) - 1))
             x == seq[Len(seq)]
         IN IF x \in Range(front) THEN front ELSE Append(front, x)

\* lines 257-259: the keys of freq = Counter(results.ytrue) once the missing
\* sentinel has been popped
freq_keys(res) ==
    SelectSeq(FirstSeen(res.ytrue), LAMBDA l : l # res.missing)

\* freq.get: the number of ground-truth occurrences of each label
freq(res) ==
    [l \in Range(res.ytrue) \cup Range(res.classes) |->
        Cardinality({p \in 1..Len(res.ytrue) : res.ytrue[p] = l})]

\* lines 260-263: the four explicit class orderings
az_classes(res) == sorted(res.classes)
za_classes(res) == sorted_reverse(res.classes)
mc_classes(res) == SortedByReverse(freq_keys(res), freq(res))
lc_classes(res) == SortedBy(freq_keys(res), freq(res))

\* results._confusion_matrix(classes=..., include_other=False,
\* include_missing=True): the labels (classes, then the missing sentinel when it
\* is not among them) and the square matrix of counts, rows ground truth and
\* columns predictions; a pair with a label outside the labels is not counted
confusion_matrix(res, classes) ==
    LET labels == IF res.missing \in Range(classes) THEN classes
                  ELSE Append(classes, res.missing)
    IN [classes |-> labels,
        matrix |-> [i \in 1..Len(labels) |-> [j \in 1..Len(labels) |->
                       CountPositions(res.ytrue, res.ypred, labels[i], labels[j])]]]

\* get_confusion_matrices: the five orderings with their matrices (the
\* colorscales are derived from each matrix by an external utility)
get_confusion_matrices(res) ==
    [default |-> confusion_matrix(res, res.classes),
     az |-> confusion_matrix(res, az_classes(res)),
     za |-> confusion_matrix(res, za_classes(res)),
     mc |-> confusion_matrix(res, mc_classes(res)),
     lc |-> confusion_matrix(res, lc_classes(res))]

\* a mutant: false positives and false negatives swapped
detection_counts_swapped(res) ==
    [tp |-> Some(Cardinality({p \in 1..Len(res.ytrue) : res.ytrue[p] = res.ypred[p]})),
     fp |-> Some(Cardinality({p \in 1..Len(res.ytrue) : res.ypred[p] = res.missing})),
     fn |-> Some(Cardinality({p \in 1..Len(res.ytrue) : res.ytrue[p] = res.missing}))]

\* lines 129-133: the detection counts
detection_counts(res) ==
    [tp |-> Some(Cardinality({p \in 1..Len(res.ytrue) : res.ytrue[p] = res.ypred[p]})),
     fp |-> Some(Cardinality({p \in 1..Len(res.ytrue) : res.ytrue[p] = res.missing})),
     fn |-> Some(Cardinality({p \in 1..Len(res.ytrue) : res.ypred[p] = res.missing}))]

\* lines 112-126: the binary classification counts; classes is (neg, pos)
binary_counts(res) ==
    LET pos_label == res.classes[2]
    IN [tp |-> Some(Cardinality({p \in 1..Len(res.ytrue) :
                        res.ytrue[p] = pos_label /\ res.ypred[p] = pos_label})),
        fp |-> Some(Cardinality({p \in 1..Len(res.ytrue) :
                        res.ytrue[p] # pos_label /\ res.ypred[p] = pos_label})),
        fn |-> Some(Cardinality({p \in 1..Len(res.ytrue) :
                        res.ytrue[p] = pos_label /\ res.ypred[p] # pos_label}))]

\* get_tp_fp_fn: (tp, fp, fn), each None for any other evaluation
get_tp_fp_fn(config, res) ==
    IF config.type = "classification" /\ config.method = "binary"
    THEN binary_counts(res)
    ELSE IF config.type = "detection" THEN detection_counts(res)
    ELSE [tp |-> << >>, fp |-> << >>, fn |-> << >>]

\* the unpacking neg_label, pos_label = results.classes raises unless there
\* are exactly two classes
tp_fp_fn_raises(config, res) ==
    /\ config.type = "classification" /\ config.method = "binary"
    /\ Len(res.classes) # 2

EVALUATION_TYPES_WITH_CONFIDENCE == {"detection", "classification"}

\* the confidences a scored item may carry: None or a score (in tenths)
ConfValues == {<< >>, <<1>>, <<3>>}

\* Python's floats as exact fractions in lowest terms
RECURSIVE GCD(_, _)
GCD(a, b) == IF b = 0 THEN a ELSE GCD(b, a % b)
Rat(n, d) == [num |-> n \div GCD(n, d), den |-> d \div GCD(n, d)]
RatAdd(a, b) == Rat(a.num * b.den + b.num * a.den, a.den * b.den)
RatDiv(a, k) == Rat(a.num, a.den * k)

\* sums[c] and counts[c] after the zip loop over the first n items
RECURSIVE conf_sums(_, _, _)
conf_sums(res, c, n) ==
    IF n = 0 THEN 0
    ELSE conf_sums(res, c, n - 1)
         + (IF res.ypred[n] # c THEN 0
            ELSE IF res.confs[n] = << >> THEN 0 ELSE res.confs[n][1])
conf_counts(res, c) == Cardinality({p \in 1..Len(res.ypred) : res.ypred[p] = c})

\* compute_avg_confs(results): class -> sums[c] / counts[c], 0.0 when unpredicted
compute_avg_confs(res) ==
    [c \in Range(res.classes) |->
        IF conf_counts(res, c) > 0
        THEN Rat(conf_sums(res, c, Len(res.ypred)), conf_counts(res, c))
        ELSE Rat(0, 1)]

\* get_per_class_metrics(info, results), its "confidence" entries: the entry
\* is absent (<< >>) when the type reports no confidence
get_per_class_metrics(config, res) ==
    LET avg_confs == IF config.type \in EVALUATION_TYPES_WITH_CONFIDENCE
                     THEN Some(compute_avg_confs(res))
                     ELSE << >>
    IN  [c \in Range(res.classes) |->
            [confidence |-> IF ~IsNone(avg_confs) /\ DOMAIN avg_confs[1] # {}
                            THEN Some(avg_confs[1][c])
                            ELSE << >>]]

\* total after the loop of get_avg_confidence over the metrics of cs
RECURSIVE total_confidence(_, _)
total_confidence(pcm, cs) ==
    IF cs = {} THEN Rat(0, 1)
    ELSE LET c == CHOOSE x \in cs : TRUE
             rest == total_confidence(pcm, cs \ {c})
         IN  IF ~IsNone(pcm[c].confidence)
             THEN RatAdd(rest, pcm[c].confidence[1])
             ELSE rest

\* get_avg_confidence(per_class_metrics): total / count, None without classes
get_avg_confidence(pcm) ==
    LET count == Cardinality(DOMAIN pcm)
    IN  IF count > 0
        THEN Some(RatDiv(total_confidence(pcm, DOMAIN pcm), count))
        ELSE << >>

\* the evaluation configs (type, method) of the model; "regression" is a type
\* the panel does not support
Configs ==
    {[type |-> "classification", method |-> "binary"],
     [type |-> "classification", method |-> "simple"],
     [type |-> "detection", method |-> "coco"],
     [type |-> "segmentation", method |-> "simple"],
     [type |-> "regression", method |-> "simple"]}

----------------------------------------------------------------------------
(* The dataset collaborator *)

\* the run document dataset._doc.evaluations[key] of a run of the given type
RunDoc(key, id, type, method, missing, has_results) ==
    [key |-> key, id |-> id, type |-> type, method |-> method,
     gt_field |-> IF key = Keys[1] THEN "ground_truth" ELSE "ground_truth_" \o key,
     pred_field |-> "pred_" \o key,
     missing |-> missing, results |-> has_results]

\* dataset.list_evaluations(): the keys of the dataset's runs, in order
list_evaluations(evals) ==
    SelectSeq(Keys, LAMBDA k : ~IsNone(evals[k]))

\* str(dataset._doc.evaluations[eval_key].id), None when the lookup raises
get_evaluation_id(evals, eval_key) ==
    IF eval_key \notin KeySet \/ IsNone(evals[eval_key]) THEN NONE
    ELSE evals[eval_key][1].id

\* bool(dataset._doc.evaluations[eval_key].results), False when it raises
has_evaluation_results(evals, eval_key) ==
    IF eval_key \notin KeySet \/ IsNone(evals[eval_key]) THEN FALSE
    ELSE evals[eval_key][1].results

----------------------------------------------------------------------------
(* The store collaborator: get(key) -> value?, set(key, value) *)

store_get(st, key) == st[key]
store_set(st, key, value) == [st EXCEPT ![key] = Some(value)]

\* the ids under which bundles are cached: the runs' ids and the null id
EvalIds == {"id1", "id2"}
StoreKeys == {"pending_evaluations"} \cup EvalIds \cup {NONE}
EmptyStore == [k \in StoreKeys |-> << >>]

----------------------------------------------------------------------------
(* PendingEvaluationsTracker *)

\* the dict a submission or a synthesized entry is: {"eval_key": k} with an
\* optional "doc_id" (NONE: the key is absent from the dict)
PendingEntry(eval_key, doc_id) == [eval_key |-> eval_key, doc_id |-> doc_id]

\* store.get("pending_evaluations") or {}
pending_evaluations_in_store(st) ==
    LET v == store_get(st, "pending_evaluations")
    IN IF IsNone(v) THEN << >> ELSE v[1]

\* pending_evaluations_in_store.get(dataset_id, []); the dict is the function
\* dataset id -> list over the ids it holds
pending_evaluations_for_dataset_in_store(st, dataset_id) ==
    LET d == pending_evaluations_in_store(st)
    IN IF dataset_id \in DOMAIN d THEN d[dataset_id] ELSE << >>

\* a mutant: the stored list is kept whole, materialized runs included
updated_pending_all(stored, eval_keys) == stored

\* lines 404-412: the stored entries whose eval_key is not a run of the dataset
updated_pending_evaluations_for_dataset_in_stored(stored, eval_keys) ==
    SelectSeq(stored, LAMBDA p : p.eval_key \notin Range(eval_keys))

\* a mutant: the store is written on every reconcile
update_store_always(stored, eval_keys) == TRUE

\* lines 403-407: whether some stored entry was dropped
update_store(stored, eval_keys) ==
    \E i \in 1..Len(stored) : stored[i].eval_key \in Range(eval_keys)

\* lines 413-415: an entry for every run of the dataset that has no results
synthesized_pending(evals) ==
    LET keys == SelectSeq(list_evaluations(evals),
                          LAMBDA k : ~has_evaluation_results(evals, k))
    IN [i \in 1..Len(keys) |-> PendingEntry(keys[i], NONE)]

\* load_pending_evaluations as a function of the store and the dataset:
\* the store it leaves, the sequence it publishes, the store.set calls made
reconcile(st, evals) ==
    LET eval_keys == list_evaluations(evals)
        stored == pending_evaluations_for_dataset_in_store(st, DatasetId)
        kept == updated_pending_evaluations_for_dataset_in_stored(stored, eval_keys)
        write == update_store(stored, eval_keys)
        dict == pending_evaluations_in_store(st)
        newdict == [d \in (DOMAIN dict) \cup {DatasetId} |->
                        IF d = DatasetId THEN kept ELSE dict[d]]
    IN [store |-> IF write THEN store_set(st, "pending_evaluations", newdict)
                  ELSE st,
        pending |-> kept \o synthesized_pending(evals),
        sets |-> IF write THEN 1 ELSE 0]

UnchangedEvaluation == UNCHANGED <<panel_state, view, enable_caching>>
UnchangedMetrics == UNCHANGED <<results, info, out, sessions>>

\* the handler load_pending_evaluations (also the tail of on_load)
load_pending_evaluations ==
    LET r == reconcile(store, evaluations)
    IN /\ store' = r.store
       /\ panel_data' = [panel_data EXCEPT !.pending_evaluations = r.pending]
       /\ history' = Record(Event("load_pending_evaluations", NONE, NONE,
                                  r.sets, FALSE, FALSE, FALSE, r.pending))
       /\ UNCHANGED evaluations
       /\ UnchangedEvaluation /\ UnchangedMetrics

\* line 442: pending_evaluations[dataset_id].append(pending)
append_pending(stored, pending) == Append(stored, pending)

\* the handler on_evaluate_model_success, for a result carrying eval_key and
\* an optional document id
on_evaluate_model_success(eval_key, doc_id) ==
    LET pending == PendingEntry(eval_key, doc_id)
        dict == pending_evaluations_in_store(store)
        stored == pending_evaluations_for_dataset_in_store(store, DatasetId)
        newdict == [d \in (DOMAIN dict) \cup {DatasetId} |->
                        IF d = DatasetId THEN append_pending(stored, pending)
                        ELSE dict[d]]
        st1 == store_set(store, "pending_evaluations", newdict)
        r == reconcile(st1, evaluations)
    IN /\ Len(stored) < MaxPending
       /\ store' = r.store
       /\ panel_data' = [panel_data EXCEPT !.pending_evaluations = r.pending]
       /\ history' = Record(Event("on_evaluate_model_success", eval_key, NONE,
                                  1 + r.sets, FALSE, FALSE, FALSE, r.pending))
       /\ UNCHANGED evaluations
       /\ UnchangedEvaluation /\ UnchangedMetrics

\* the run document the dataset holds for a key in SpecPending
PendingDoc(key, has_results) ==
    RunDoc(key, NONE, "detection", NONE, DEFAULT_MISSING, has_results)

DatasetChanged == Event("dataset_change", NONE, NONE, 0, FALSE, FALSE, FALSE, << >>)

\* the dataset registers a run under key: listed, no results yet
RegisterEvaluation(key) ==
    /\ IsNone(evaluations[key])
    /\ evaluations' = [evaluations EXCEPT ![key] = Some(PendingDoc(key, FALSE))]
    /\ history' = Record(DatasetChanged)
    /\ UNCHANGED <<store, panel_data>>
    /\ UnchangedEvaluation /\ UnchangedMetrics

\* the run under key saves its results
SaveResults(key) ==
    /\ ~IsNone(evaluations[key])
    /\ ~evaluations[key][1].results
    /\ evaluations' = [evaluations EXCEPT ![key] = Some(PendingDoc(key, TRUE))]
    /\ history' = Record(DatasetChanged)
    /\ UNCHANGED <<store, panel_data>>
    /\ UnchangedEvaluation /\ UnchangedMetrics

\* the run under key is deleted from the dataset
DeleteEvaluation(key) ==
    /\ ~IsNone(evaluations[key])
    /\ evaluations' = [evaluations EXCEPT ![key] = << >>]
    /\ history' = Record(DatasetChanged)
    /\ UNCHANGED <<store, panel_data>>
    /\ UnchangedEvaluation /\ UnchangedMetrics

EmptyPanelData ==
    [pending_evaluations |-> << >>,
     evaluation |-> [k \in KeySet |-> << >>],
     evaluation_error |-> [k \in KeySet |-> << >>]]

NoResults == [classes |-> << >>, ytrue |-> << >>, ypred |-> << >>,
              missing |-> DEFAULT_MISSING]
NoInfo == [type |-> NONE, method |-> NONE]
NoOut == [op |-> "init"]

InitPending ==
    /\ \E f \in [KeySet -> {"absent", "running", "done"}] :
          evaluations = [k \in KeySet |->
                            IF f[k] = "absent" THEN << >>
                            ELSE Some(PendingDoc(k, f[k] = "done"))]
    /\ store = EmptyStore
    /\ panel_data = EmptyPanelData
    /\ panel_state = << >>
    /\ view = << >>
    /\ enable_caching = TRUE
    /\ history = <<NoEvent, NoEvent>>
    /\ results = NoResults
    /\ info = NoInfo
    /\ out = NoOut
    /\ sessions = IdleSessions

NextPending ==
    \/ load_pending_evaluations
    \/ \E k \in KeySet, d \in DocIds : on_evaluate_model_success(k, d)
    \/ \E k \in KeySet : RegisterEvaluation(k)
    \/ \E k \in KeySet : SaveResults(k)
    \/ \E k \in KeySet : DeleteEvaluation(k)

SpecPending == InitPending /\ [][NextPending]_vars

----------------------------------------------------------------------------
(* Claims about the tracker, checked under SpecPending *)

StoredPending == pending_evaluations_for_dataset_in_store(store, DatasetId)
Published == panel_data.pending_evaluations
Reconciled == Last.op \in {"load_pending_evaluations", "on_evaluate_model_success"}
NoDuplicateKeys(s) ==
    \A i, j \in 1..Len(s) : s[i].eval_key = s[j].eval_key => i = j

\* C1: two load_pending_evaluations calls in a row, with no submission and no
\* dataset change between them, publish the same pending_evaluations sequence,
\* and write "pending_evaluations" to the store at most once, on the first
\* call and never on the second.
C1_ReconcileTwiceIsIdempotent ==
    (Prev.op = "load_pending_evaluations" /\ Last.op = "load_pending_evaluations")
    => /\ Last.pending = Prev.pending
       /\ Published = Prev.pending
       /\ Last.sets = 0
       /\ Prev.sets + Last.sets <= 1

\* two reconciles in a row, the first of which dropped an entry and wrote the
\* store, both publishing a non-empty sequence
C1_Witness ==
    /\ Prev.op = "load_pending_evaluations"
    /\ Last.op = "load_pending_evaluations"
    /\ Prev.sets = 1
    /\ Len(Published) > 0

\* C4: right after a reconcile, no published pending entry names a run that
\* has results in the dataset, and no entry of the dataset's stored pending
\* list names a run the dataset lists.
C4_MaterializedRunsAreDropped ==
    Reconciled =>
       /\ \A i \in 1..Len(Published) :
             LET k == Published[i].eval_key
             IN ~(~IsNone(evaluations[k]) /\ evaluations[k][1].results)
       /\ \A i \in 1..Len(StoredPending) :
             IsNone(evaluations[StoredPending[i].eval_key])

\* a reconcile has just dropped a stored entry whose run the dataset now holds
\* with results, while still publishing another entry
C4_Witness ==
    /\ Last.op = "load_pending_evaluations"
    /\ Last.sets = 1
    /\ \E k \in KeySet : ~IsNone(evaluations[k]) /\ evaluations[k][1].results
    /\ Len(Published) > 0
    /\ Len(StoredPending) > 0

\* C5: neither the stored pending list of the dataset nor the published
\* pending_evaluations sequence ever holds two entries with the same eval_key.
C5_NoDuplicatePending ==
    NoDuplicateKeys(StoredPending) /\ NoDuplicateKeys(Published)


----------------------------------------------------------------------------
(* PendingEvaluationsTracker run by two sessions: every store.get and      *)
(* store.set of the two handlers is a step of its own                      *)

\* a step was taken: no reconcile in progress is undisturbed any more
Disturbed(ss) == [t \in Sessions |-> [ss[t] EXCEPT !.quiet = FALSE]]
OthersIdle(s) == \A t \in Sessions \ {s} : sessions[t].pc = "idle"
\* session s1 runs its evaluations at once, s2 delegates them
SessionDoc(s) == IF s = "s1" THEN NONE ELSE "op1"

UnchangedBySessions ==
    UNCHANGED <<panel_data, panel_state, view, enable_caching, history,
                results, info, out>>

\* the submissions the sessions in S have made
RECURSIVE Submitted(_, _)
Submitted(ss, S) ==
    IF S = {} THEN 0
    ELSE LET t == CHOOSE x \in S : TRUE
         IN  ss[t].submits + Submitted(ss, S \ {t})

\* pending_evaluations_in_store.get(dataset_id, []) of a dict already read
pending_for_dataset(dict, dataset_id) ==
    IF dataset_id \in DOMAIN dict THEN dict[dataset_id] ELSE << >>

\* lines 413-415 over the eval_keys listed earlier and the dataset as it is
synthesized_pending_for(eval_keys, evals) ==
    LET keys == SelectSeq(eval_keys, LAMBDA k : ~has_evaluation_results(evals, k))
    IN [i \in 1..Len(keys) |-> PendingEntry(keys[i], NONE)]

\* a mutant: the dict is written back as it was read
written_pending_as_read(dict, kept) == dict

\* lines 417-419: the dict read, with the dataset's list replaced by kept
written_pending(dict, kept) ==
    [d \in (DOMAIN dict) \cup {DatasetId} |->
        IF d = DatasetId THEN kept ELSE dict[d]]

\* on_evaluate_model_success up to line 442: read the dict, append locally
submit_read(s, eval_key) ==
    LET dict == pending_evaluations_in_store(store)
        stored == pending_for_dataset(dict, DatasetId)
        pending == PendingEntry(eval_key, SessionDoc(s))
        newdict == [d \in (DOMAIN dict) \cup {DatasetId} |->
                        IF d = DatasetId THEN append_pending(stored, pending)
                        ELSE dict[d]]
    IN /\ sessions[s].pc = "idle"
       /\ Submitted(sessions, Sessions) < MaxSubmits
       /\ sessions' = [Disturbed(sessions) EXCEPT ![s].pc = "submit_set",
                                                  ![s].dict = newdict,
                                                  ![s].sets = 0,
                                                  ![s].stale = FALSE,
                                                  ![s].submits = @ + 1]
       /\ UNCHANGED <<store, evaluations>>
       /\ UnchangedBySessions

\* line 443: store.set of the dict read earlier, then load_pending_evaluations
submit_write(s) ==
    /\ sessions[s].pc = "submit_set"
    /\ store' = store_set(store, "pending_evaluations", sessions[s].dict)
    /\ sessions' = [Disturbed(sessions) EXCEPT
                        ![s].pc = "get",
                        ![s].dict = << >>,
                        ![s].stale =
                            LET written == sessions[s].dict[DatasetId]
                            IN  SubSeq(written, 1, Len(written) - 1)
                                    # pending_for_dataset(
                                          pending_evaluations_in_store(store),
                                          DatasetId)]
    /\ UNCHANGED evaluations
    /\ UnchangedBySessions

\* load_pending_evaluations, lines 394-398: eval_keys =
\* dataset.list_evaluations(), then store.get("pending_evaluations") or {};
\* the listing touches no store and no session, so it is taken together with
\* the store read that follows it
reconcile_read(s) ==
    /\ sessions[s].pc \in {"idle", "get"}
    /\ sessions' = [Disturbed(sessions) EXCEPT
                        ![s].pc = "set",
                        ![s].eval_keys = list_evaluations(evaluations),
                        ![s].dict = pending_evaluations_in_store(store),
                        ![s].sets = 0,
                        ![s].stale = IF sessions[s].pc = "idle" THEN FALSE
                                     ELSE sessions[s].stale,
                        ![s].quiet = OthersIdle(s)]
    /\ UNCHANGED <<store, evaluations>>
    /\ UnchangedBySessions

\* lines 399-421: filter the list read, write it back if an entry was
\* dropped, publish the pending evaluations to the session's panel
reconcile_write(s) ==
    LET eval_keys == sessions[s].eval_keys
        dict == sessions[s].dict
        stored == pending_for_dataset(dict, DatasetId)
        kept == updated_pending_evaluations_for_dataset_in_stored(stored, eval_keys)
        write == update_store(stored, eval_keys)
    IN /\ sessions[s].pc = "set"
       /\ store' = IF write
                   THEN store_set(store, "pending_evaluations",
                                  written_pending(dict, kept))
                   ELSE store
       /\ sessions' = [Disturbed(sessions) EXCEPT
                           ![s].pc = "idle",
                           ![s].dict = << >>,
                           ![s].eval_keys = << >>,
                           ![s].pending =
                               kept \o synthesized_pending_for(eval_keys, evaluations),
                           ![s].sets = IF write THEN 1 ELSE 0,
                           ![s].stale =
                               IF write
                               THEN stored # pending_for_dataset(
                                                 pending_evaluations_in_store(store),
                                                 DatasetId)
                               ELSE sessions[s].stale,
                           ![s].quiet = sessions[s].quiet]
       /\ UNCHANGED evaluations
       /\ UnchangedBySessions

\* the dataset registers the run under key (no results yet) or the run
\* registered under key saves its results
dataset_change(key, has_results) ==
    /\ IF IsNone(evaluations[key]) THEN ~has_results
       ELSE has_results /\ ~evaluations[key][1].results
    /\ evaluations' = [evaluations EXCEPT ![key] =
                          Some(PendingDoc(key, has_results))]
    /\ sessions' = Disturbed(sessions)
    /\ UNCHANGED store
    /\ UnchangedBySessions

NextSessions ==
    \/ \E s \in Sessions, k \in KeySet : submit_read(s, k)
    \/ \E s \in Sessions : submit_write(s)
    \/ \E s \in Sessions : reconcile_read(s)
    \/ \E s \in Sessions : reconcile_write(s)
    \/ \E k \in KeySet, r \in BOOLEAN : dataset_change(k, r)

SpecSessions == InitPending /\ [][NextSessions]_vars

\* no stored entry of the dataset is of a key the dataset lists
NoListedKeyStored ==
    \A i \in 1..Len(StoredPending) :
        StoredPending[i].eval_key \notin Range(list_evaluations(evaluations))

\* C12: under any interleaving of the store reads and writes of the two
\* handlers run by two sessions, once every operation in flight has finished
\* and the dataset no longer changes, one further reconcile leaves the stored
\* pending list with no entry whose eval_key the dataset lists, entries
\* written by the other session after a stale read included.
C12_QuietReconcileConverges ==
    \A s \in Sessions :
        sessions[s].pc = "idle" /\ sessions[s].quiet => NoListedKeyStored

\* the other session's last store.set replaced a list that had changed since
\* its read; then a session that never submitted has reconciled alone and
\* dropped an entry
C12_Witness ==
    \E s \in Sessions, t \in Sessions :
        /\ s # t
        /\ sessions[s].pc = "idle" /\ sessions[s].quiet
        /\ sessions[s].sets = 1 /\ sessions[s].submits = 0
        /\ sessions[t].pc = "idle" /\ sessions[t].stale

----------------------------------------------------------------------------
(* SpecMetrics: the aggregation functions applied to every results view of  *)
(* up to three classes and MaxItems scored items, the classes being the     *)
(* labels observed in the ground truth or the predictions                   *)

\* the sequences of length n over the set S
SeqsOfLen(S, n) == [1..n -> S]

\* the class lists: every ordering of every subset of ClassLabels
ClassLists ==
    {c \in UNION {SeqsOfLen(ClassLabels, n) : n \in 0..Cardinality(ClassLabels)} :
        \A i, j \in 1..Len(c) : c[i] = c[j] => i = j}

UnchangedPanel ==
    UNCHANGED <<evaluations, store, panel_data, panel_state, view,
                enable_caching, history, sessions>>

\* the aggregator calls get_confusion_matrices(results)
call_get_confusion_matrices ==
    /\ out' = [op |-> "get_confusion_matrices",
               value |-> get_confusion_matrices(results)]
    /\ UNCHANGED <<results, info>>
    /\ UnchangedPanel

\* a detection evaluation scores matched pairs and unmatched objects: no item
\* of its results has the missing sentinel on both sides
IsDetectionView(res) ==
    \A p \in 1..Len(res.ytrue) :
        res.ytrue[p] # res.missing \/ res.ypred[p] # res.missing

\* the aggregator calls get_tp_fp_fn(info, results)
call_get_tp_fp_fn(config) ==
    /\ ~tp_fp_fn_raises(config, results)
    /\ config.type = "detection" => IsDetectionView(results)
    /\ info' = config
    /\ out' = [op |-> "get_tp_fp_fn", value |-> get_tp_fp_fn(config, results)]
    /\ UNCHANGED results
    /\ UnchangedPanel

\* the aggregator calls get_per_class_metrics(info, results) and hands its
\* result to get_avg_confidence
call_get_avg_confidence(config) ==
    /\ config.type \in SUPPORTED_EVALUATION_TYPES
    /\ info' = config
    /\ out' = LET per_class_metrics == get_per_class_metrics(config, results)
              IN  [op |-> "get_avg_confidence",
                   per_class_metrics |-> per_class_metrics,
                   value |-> get_avg_confidence(per_class_metrics)]
    /\ UNCHANGED results
    /\ UnchangedPanel

InitMetrics ==
    /\ \E classes \in ClassLists, n \in 0..MaxItems :
          \E ytrue, ypred \in SeqsOfLen(Range(classes) \cup {DEFAULT_MISSING}, n) :
              /\ Range(classes) \subseteq Range(ytrue) \cup Range(ypred)
              /\ results = [classes |-> classes, ytrue |-> ytrue, ypred |-> ypred,
                            missing |-> DEFAULT_MISSING]
    /\ info = NoInfo
    /\ out = NoOut
    /\ sessions = IdleSessions
    /\ evaluations = [k \in KeySet |-> << >>]
    /\ store = EmptyStore
    /\ panel_data = EmptyPanelData
    /\ panel_state = << >>
    /\ view = << >>
    /\ enable_caching = TRUE
    /\ history = <<NoEvent, NoEvent>>

NextMetrics ==
    \/ call_get_confusion_matrices
    \/ \E config \in Configs : call_get_tp_fp_fn(config)

SpecMetrics == InitMetrics /\ [][NextMetrics]_vars

\* the results views with the confidence of every scored item
InitConfidence ==
    /\ \E classes \in ClassLists, n \in 0..MaxItems :
          \E ytrue, ypred \in SeqsOfLen(Range(classes) \cup {DEFAULT_MISSING}, n),
             confs \in SeqsOfLen(ConfValues, n) :
              /\ Range(classes) \subseteq Range(ytrue) \cup Range(ypred)
              /\ results = [classes |-> classes, ytrue |-> ytrue, ypred |-> ypred,
                            confs |-> confs, missing |-> DEFAULT_MISSING]
    /\ info = NoInfo
    /\ out = NoOut
    /\ sessions = IdleSessions
    /\ evaluations = [k \in KeySet |-> << >>]
    /\ store = EmptyStore
    /\ panel_data = EmptyPanelData
    /\ panel_state = << >>
    /\ view = << >>
    /\ enable_caching = TRUE
    /\ history = <<NoEvent, NoEvent>>

NextConfidence == \E config \in Configs : call_get_avg_confidence(config)

SpecConfidence == InitConfidence /\ [][NextConfidence]_vars

----------------------------------------------------------------------------
(* Claims about the aggregator, checked under SpecMetrics *)

Orderings == {"default", "az", "za", "mc", "lc"}
MatrixSum(m) ==
    LET RECURSIVE RowSum(_, _), Total(_)
        RowSum(row, j) == IF j = 0 THEN 0 ELSE row[j] + RowSum(row, j - 1)
        Total(i) == IF i = 0 THEN 0 ELSE RowSum(m[i], Len(m[i])) + Total(i - 1)
    IN Total(Len(m))
\* how many cells of the matrix hold the value v
CellCount(m, v) ==
    Cardinality({c \in (1..Len(m)) \X (1..Len(m)) : m[c[1]][c[2]] = v})
\* matrix b is matrix a with its rows and columns permuted as the labels are
PermutedAs(a, b) ==
    /\ Len(a.classes) = Len(b.classes)
    /\ Range(a.classes) = Range(b.classes)
    /\ \A i, j \in 1..Len(b.classes) :
          \E k, l \in 1..Len(a.classes) :
              /\ a.classes[k] = b.classes[i]
              /\ a.classes[l] = b.classes[j]
              /\ a.matrix[k][l] = b.matrix[i][j]

\* C7: the five confusion matrices get_confusion_matrices returns have the same
\* total and the same multiset of cell values, and differ only by a permutation
\* applied to rows and columns.
C7_MatricesArePermutations ==
    out.op = "get_confusion_matrices" =>
        \A o \in Orderings :
            /\ MatrixSum(out.value[o].matrix) = MatrixSum(out.value.default.matrix)
            /\ \A v \in 0..Len(results.ytrue) :
                  CellCount(out.value[o].matrix, v)
                      = CellCount(out.value.default.matrix, v)
            /\ PermutedAs(out.value.default, out.value[o])

\* the class list an ordering was computed from: the returned labels without
\* the missing sentinel appended to them
Ordering(o) == SelectSeq(out.value[o].classes, LAMBDA l : l # results.missing)
TrueCount(l) == Cardinality({p \in 1..Len(results.ytrue) : results.ytrue[p] = l})
IsPermutationOfClasses(s) ==
    /\ Len(s) = Len(results.classes)
    /\ Range(s) = Range(results.classes)

\* C8: az is the class list sorted ascending, za its exact reverse, and mc and
\* lc are permutations of the class set (every class, seen in the ground truth
\* or not, and nothing else) ordered by ground-truth frequency descending and
\* ascending, the missing sentinel taking no part in the ranking.
C8_ClassOrderings ==
    out.op = "get_confusion_matrices" =>
        LET az == Ordering("az")
            za == Ordering("za")
            mc == Ordering("mc")
            lc == Ordering("lc")
        IN /\ IsPermutationOfClasses(az)
           /\ \A i \in 1..(Len(az) - 1) : LabelRank(az[i]) < LabelRank(az[i + 1])
           /\ Len(za) = Len(az)
           /\ \A i \in 1..Len(az) : za[i] = az[Len(az) + 1 - i]
           /\ IsPermutationOfClasses(mc)
           /\ \A i \in 1..(Len(mc) - 1) : TrueCount(mc[i]) >= TrueCount(mc[i + 1])
           /\ IsPermutationOfClasses(lc)
           /\ \A i \in 1..(Len(lc) - 1) : TrueCount(lc[i]) <= TrueCount(lc[i + 1])

DetectionCounted == out.op = "get_tp_fp_fn" /\ info.type = "detection"
NonMissing(seq) == Cardinality({p \in 1..Len(seq) : seq[p] # results.missing})
\* every scored item is a matched pair of equal labels or has exactly one side
\* missing
MatchedOrOneSided ==
    \A p \in 1..Len(results.ytrue) :
        \/ results.ytrue[p] = results.ypred[p] /\ results.ytrue[p] # results.missing
        \/ results.ytrue[p] = results.missing /\ results.ypred[p] # results.missing
        \/ results.ytrue[p] # results.missing /\ results.ypred[p] = results.missing

\* C9 as stated: for a detection evaluation tp + fp = len(ypred) and
\* tp + fn = len(ytrue), for every pair of equal-length ytrue / ypred.
C9_CountsSumToLength ==
    DetectionCounted =>
        /\ out.value.tp[1] + out.value.fp[1] = Len(results.ypred)
        /\ out.value.tp[1] + out.value.fn[1] = Len(results.ytrue)

\* C9 as amended: when every scored item is a matched pair of equal labels or
\* has exactly one side missing, tp + fp is the number of entries of ypred that
\* are not the missing sentinel, tp + fn the number of entries of ytrue that
\* are not, and tp + fp + fn = len(ytrue) = len(ypred).
C9_CountsSumToNonMissing ==
    (DetectionCounted /\ MatchedOrOneSided) =>
        /\ out.value.tp[1] + out.value.fp[1] = NonMissing(results.ypred)
        /\ out.value.tp[1] + out.value.fn[1] = NonMissing(results.ytrue)
        /\ out.value.tp[1] + out.value.fp[1] + out.value.fn[1] = Len(results.ytrue)

\* a detection evaluation with a true positive and a false positive counted
C9_Witness ==
    /\ DetectionCounted
    /\ MatchedOrOneSided
    /\ out.value.tp = <<1>>
    /\ out.value.fp = <<1>>


\* the mean of the confidences of the classes in cs
RECURSIVE ConfidenceSum(_, _)
ConfidenceSum(pcm, cs) ==
    IF cs = {} THEN Rat(0, 1)
    ELSE LET c == CHOOSE x \in cs : TRUE
         IN  RatAdd(ConfidenceSum(pcm, cs \ {c}), pcm[c].confidence[1])
WithConfidence(pcm) == {c \in DOMAIN pcm : ~IsNone(pcm[c].confidence)}

\* C11: average_confidence is the mean of the per-class confidence over the
\* classes for which a confidence was computed, and it is null whenever no
\* class has a confidence (a segmentation evaluation with classes included).
C11_AverageConfidence ==
    out.op = "get_avg_confidence" =>
        LET pcm == out.per_class_metrics
            with == WithConfidence(pcm)
        IN  IF with = {}
            THEN out.value = << >>
            ELSE out.value = Some(RatDiv(ConfidenceSum(pcm, with), Cardinality(with)))

----------------------------------------------------------------------------
(* ResultsCache: load_evaluation against the store *)

CACHE_TTL == 30 * 24 * 60 * 60

\* the missing sentinels an evaluation of the model may have been run with
Sentinels == {DEFAULT_MISSING, "bg"}
\* the id of the run document stored under each key
IdOf == [k \in KeySet |-> IF k = Keys[1] THEN "id1" ELSE "id2"]

\* dataset.load_evaluation_results(key): the results view of the run, whose
\* unmatched sides carry the run's missing sentinel
load_evaluation_results(doc) ==
    IF doc.key = Keys[1]
    THEN [classes |-> <<"cat", "dog">>,
          ytrue |-> <<"cat", doc.missing, "dog">>,
          ypred |-> <<"cat", "dog", doc.missing>>,
          missing |-> doc.missing]
    ELSE [classes |-> <<"dog", "cat">>,
          ytrue |-> <<"dog", "dog">>,
          ypred |-> <<"dog", doc.missing>>,
          missing |-> doc.missing]

\* dataset.get_evaluation_info(key).serialize()
serialize(doc) ==
    [key |-> doc.key, type |-> doc.type, method |-> doc.method,
     gt_field |-> doc.gt_field, pred_field |-> doc.pred_field]

\* the dataset's mask targets: none for the ground-truth field, no default
get_mask_targets(gt_field) == NONE

\* lines 348-371: the bundle computed from the run's info and results (of the
\* aggregate scalars, tp, fp and fn)
evaluation_data(doc) ==
    LET res == load_evaluation_results(doc)
    IN [metrics |-> get_tp_fp_fn(doc, res),
        info |-> serialize(doc),
        confusion_matrices |-> get_confusion_matrices(res),
        mask_targets |-> IF doc.type = "segmentation"
                         THEN get_mask_targets(doc.gt_field) ELSE NONE]

\* a mutant: the store is never read
cached_evaluation_data_never(st, caching, eval_id) == << >>

\* lines 335-337: store.get(computed_eval_id) if ENABLE_CACHING else None
cached_evaluation_data(st, caching, eval_id) ==
    IF caching THEN store_get(st, eval_id) ELSE << >>

\* the handler load_evaluation for params key and id; set_fails: the store.set
\* of line 377 raises, which the handler catches
load_evaluation(key, id, set_fails) ==
    LET doc == evaluations[key][1]
        cached == cached_evaluation_data(store, enable_caching, id)
        computed == evaluation_data(doc)
    IN /\ ~IsNone(evaluations[key])
       /\ doc.results
       /\ IF ~IsNone(cached)
          THEN /\ ~set_fails
               /\ panel_data' = [panel_data EXCEPT !.evaluation[key] = cached]
               /\ history' = Record(Event("load_evaluation", key, id, 0,
                                          FALSE, enable_caching, FALSE, << >>))
               /\ UNCHANGED <<store, panel_state>>
          ELSE IF doc.type \notin SUPPORTED_EVALUATION_TYPES
          THEN /\ ~set_fails
               /\ panel_data' = [panel_data EXCEPT !.evaluation_error[key] =
                      Some([error |-> "unsupported", info |-> serialize(doc)])]
               /\ history' = Record(Event("load_evaluation", key, id, 0,
                                          FALSE, enable_caching, FALSE, << >>))
               /\ UNCHANGED <<store, panel_state>>
          ELSE /\ set_fails => enable_caching
               /\ panel_state' = Some(load_evaluation_results(doc).missing)
               /\ store' = IF enable_caching /\ ~set_fails
                           THEN store_set(store, id, computed) ELSE store
               /\ panel_data' = [panel_data EXCEPT
                                    !.evaluation[key] = Some(computed)]
               /\ history' = Record(Event("load_evaluation", key, id, 0,
                                          TRUE, enable_caching, enable_caching,
                                          << >>))
       /\ UNCHANGED <<evaluations, view, enable_caching>>
       /\ UnchangedMetrics

\* the store expires the entry cached under id (its time-to-live has passed)
Evict(id) ==
    /\ ~IsNone(store[id])
    /\ store' = [store EXCEPT ![id] = << >>]
    /\ history' = Record(Event("evict", NONE, id, 0, FALSE, FALSE, FALSE, << >>))
    /\ UNCHANGED <<evaluations, panel_data, panel_state, view, enable_caching>>
    /\ UnchangedMetrics

\* the store an earlier session, run with caching enabled, has left: the
\* bundles of the supported runs in cached, each under its run's id
StoreCaching(evals, cached) ==
    [k \in StoreKeys |->
        IF \E key \in cached : /\ evals[key][1].id = k
                               /\ k # NONE
                               /\ evals[key][1].type \in SUPPORTED_EVALUATION_TYPES
        THEN Some(evaluation_data(
                 evals[CHOOSE key \in cached : evals[key][1].id = k][1]))
        ELSE << >>]

\* a dataset whose runs all have results; a run's id lookup may fail (NONE);
\* the store may hold bundles cached by an earlier session
InitEvaluation ==
    /\ \E c \in [KeySet -> Configs], m \in [KeySet -> Sentinels],
          i \in [KeySet -> BOOLEAN] :
          evaluations = [k \in KeySet |->
              Some(RunDoc(k, IF i[k] THEN IdOf[k] ELSE NONE,
                          c[k].type, c[k].method, m[k], TRUE))]
    /\ enable_caching \in BOOLEAN
    /\ \E cached \in SUBSET KeySet : store = StoreCaching(evaluations, cached)
    /\ panel_data = EmptyPanelData
    /\ panel_state = << >>
    /\ view = << >>
    /\ history = <<NoEvent, NoEvent>>
    /\ results = NoResults
    /\ info = NoInfo
    /\ out = NoOut
    /\ sessions = IdleSessions

NextEvaluation ==
    \/ \E k \in KeySet, f \in BOOLEAN :
          load_evaluation(k, get_evaluation_id(evaluations, k), f)
    \/ \E id \in EvalIds \cup {NONE} : Evict(id)

SpecEvaluation == InitEvaluation /\ [][NextEvaluation]_vars

----------------------------------------------------------------------------
(* Claims about load_evaluation, checked under SpecEvaluation *)

Supported(k) == evaluations[k][1].type \in SUPPORTED_EVALUATION_TYPES

\* C2: with caching enabled, a load_evaluation for an id under which the store
\* holds a bundle publishes exactly that bundle, does not call
\* load_evaluation_results and leaves the store alone; with caching disabled,
\* load_evaluation neither reads a bundle from the store nor writes one,
\* whatever the store holds, and recomputes every supported evaluation.
C2_CacheHitOrDisabled ==
    [][LET e == history'[2]
       IN e.op = "load_evaluation" =>
            /\ (enable_caching /\ ~IsNone(store[e.id])) =>
                  /\ panel_data'.evaluation[e.key] = store[e.id]
                  /\ ~e.loaded
                  /\ store' = store
            /\ ~enable_caching =>
                  /\ ~e.got /\ ~e.put
                  /\ store' = store
                  /\ Supported(e.key) =>
                        /\ e.loaded
                        /\ panel_data'.evaluation[e.key]
                              = Some(evaluation_data(evaluations[e.key][1]))
      ]_vars

\* a load_evaluation has stored a bundle under an id and the next one, for the
\* same id, was served from the store
C2_Witness ==
    /\ enable_caching
    /\ Prev.op = "load_evaluation" /\ Prev.put /\ Prev.loaded
    /\ Last.op = "load_evaluation" /\ Last.id = Prev.id /\ Last.id # NONE
    /\ Last.got /\ ~Last.loaded
    /\ panel_data.evaluation[Last.key] = store[Last.id]

\* C3: the bundle published as evaluation_<key> is the bundle of the run named
\* by that key: its info is the serialized info of that run, also when the id
\* lookup of a run failed and its id is null.
C3_PublishedBundleIsOfItsKey ==
    \A k \in KeySet :
        ~IsNone(panel_data.evaluation[k]) =>
            panel_data.evaluation[k][1].info = serialize(evaluations[k][1])

\* C6: load_evaluation for a run of an unsupported type publishes
\* evaluation_<key>_error = {error: "unsupported", info}, does not call
\* load_evaluation_results, publishes no evaluation_<key> bundle and writes
\* nothing to the cache.
C6_UnsupportedIsReportedAsData ==
    /\ \A k \in KeySet : ~Supported(k) => IsNone(panel_data.evaluation[k])
    /\ (Last.op = "load_evaluation" /\ ~Supported(Last.key)) =>
          /\ panel_data.evaluation_error[Last.key]
                = Some([error |-> "unsupported",
                        info |-> serialize(evaluations[Last.key][1])])
          /\ ~Last.loaded
          /\ ~Last.put

----------------------------------------------------------------------------
(* DrillDownQueryCompiler: load_view *)

\* the terms of a view expression: F(field + ".label") == value,
\* F(field) == value, F(root).length() > 0
LabelIs(field, value) == [term |-> "label ==", field |-> field, value |-> value]
FieldIs(field, value) == [term |-> "field ==", field |-> field, value |-> value]
NonEmpty(root) == [term |-> "length > 0", field |-> root, value |-> NONE]
\* expr | expr ... and expr & expr ...
AnyOf(terms) == [op |-> "or", terms |-> terms]
AllOf(terms) == [op |-> "and", terms |-> terms]
\* the view stages view.match(expr) and
\* view.filter_labels(field, expr, only_matches=...)
Match(expr) ==
    [stage |-> "match", field |-> NONE, expr |-> expr, only_matches |-> FALSE]
FilterLabels(field, expr, only_matches) ==
    [stage |-> "filter_labels", field |-> field, expr |-> expr,
     only_matches |-> only_matches]
\* dataset.load_evaluation_view(eval_key) with the stages applied to it
EvalView(eval_key, stages) == [eval_key |-> eval_key, stages |-> stages]

\* dataset._get_label_field_path(field): the root of the label list
LabelRoot(field) == field \o ".detections"
\* str.upper() of a field name
Upper(field) ==
    CASE field = "tp" -> "TP" [] field = "fp" -> "FP" [] field = "fn" -> "FN"
      [] OTHER -> field

\* line 489: ctx.panel.get_state("missing", "(none)")
missing_in_state(state) ==
    IF IsNone(state) THEN DEFAULT_MISSING ELSE state[1]

\* lines 492-515: the view of a classification evaluation, << >> when none
classification_view(doc, view_type, x, y, field, gt_field2, pred_field2) ==
    CASE view_type = "class" ->
            Some(EvalView(doc.key, <<Match(AnyOf(
                <<LabelIs(doc.gt_field, x), LabelIs(doc.pred_field, x)>>
                \o (IF gt_field2 # NONE THEN <<LabelIs(gt_field2, x)>> ELSE << >>)
                \o (IF pred_field2 # NONE THEN <<LabelIs(pred_field2, x)>>
                    ELSE << >>)))>>))
      [] view_type = "matrix" ->
            Some(EvalView(doc.key, <<Match(AllOf(
                <<LabelIs(doc.gt_field, y), LabelIs(doc.pred_field, x)>>))>>))
      [] view_type = "field" ->
            IF doc.method = "binary"
            THEN Some(EvalView(doc.key,
                     <<Match(AllOf(<<FieldIs(doc.key, Upper(field))>>))>>))
            ELSE Some(EvalView(doc.key,
                     <<Match(AllOf(<<FieldIs(doc.key, field)>>))>>))
      [] OTHER -> << >>

\* lines 545-568: the view of a confusion matrix cell of a detection
\* evaluation; F("label") is the label of the filtered field itself
detection_matrix_view(doc, missing, x, y) ==
    IF y = missing
    THEN EvalView(doc.key, <<FilterLabels(doc.pred_field,
             AllOf(<<LabelIs("", x), FieldIs(doc.key, "fp")>>), TRUE)>>)
    ELSE IF x = missing
    THEN EvalView(doc.key, <<FilterLabels(doc.gt_field,
             AllOf(<<LabelIs("", y), FieldIs(doc.key, "fn")>>), TRUE)>>)
    ELSE EvalView(doc.key,
            <<FilterLabels(doc.gt_field, AllOf(<<LabelIs("", y)>>), FALSE),
              FilterLabels(doc.pred_field, AllOf(<<LabelIs("", x)>>), FALSE),
              Match(AllOf(<<NonEmpty(LabelRoot(doc.gt_field)),
                            NonEmpty(LabelRoot(doc.pred_field))>>))>>)

\* lines 524-544: all ground truth and predictions of class x
detection_class_view(doc, x, gt_field2, pred_field2) ==
    EvalView(doc.key,
        <<FilterLabels(doc.gt_field, AllOf(<<LabelIs("", x)>>), FALSE),
          FilterLabels(doc.pred_field, AllOf(<<LabelIs("", x)>>), FALSE)>>
        \o (IF gt_field2 # NONE
            THEN <<FilterLabels(gt_field2, AllOf(<<LabelIs("", x)>>), FALSE)>>
            ELSE << >>)
        \o (IF pred_field2 # NONE
            THEN <<FilterLabels(pred_field2, AllOf(<<LabelIs("", x)>>), FALSE)>>
            ELSE << >>)
        \o <<Match(AnyOf(
                <<NonEmpty(LabelRoot(doc.gt_field)),
                  NonEmpty(LabelRoot(doc.pred_field))>>
                \o (IF gt_field2 # NONE THEN <<NonEmpty(LabelRoot(gt_field2))>>
                    ELSE << >>)
                \o (IF pred_field2 # NONE
                    THEN <<NonEmpty(LabelRoot(pred_field2))>> ELSE << >>)))>>)

\* lines 569-587: all true positives, false negatives or false positives
detection_field_view(doc, field) ==
    IF field = "tp"
    THEN EvalView(doc.key,
            <<FilterLabels(doc.gt_field, AllOf(<<FieldIs(doc.key, field)>>), FALSE),
              FilterLabels(doc.pred_field, AllOf(<<FieldIs(doc.key, field)>>),
                           TRUE)>>)
    ELSE IF field = "fn"
    THEN EvalView(doc.key, <<FilterLabels(doc.gt_field,
             AllOf(<<FieldIs(doc.key, field)>>), TRUE)>>)
    ELSE EvalView(doc.key, <<FilterLabels(doc.pred_field,
             AllOf(<<FieldIs(doc.key, field)>>), TRUE)>>)

\* lines 516-587: the view of a detection evaluation, << >> when none
detection_view(doc, view_type, missing, x, y, field, gt_field2, pred_field2) ==
    CASE view_type = "class" ->
            Some(detection_class_view(doc, x, gt_field2, pred_field2))
      [] view_type = "matrix" -> Some(detection_matrix_view(doc, missing, x, y))
      [] view_type = "field" -> Some(detection_field_view(doc, field))
      [] OTHER -> << >>

\* what ctx.ops was last asked: set_view(view) or clear_view()
SetView(v) == Some([op |-> "set_view", view |-> v])
ClearView == Some([op |-> "clear_view", view |-> EvalView(NONE, << >>)])

\* the fields a drill-down passes
ViewFields == {"tp", "fp", "fn"}
\* the evaluations the panel shows: those whose bundle it has published
Shown == {k \in KeySet : ~IsNone(panel_data.evaluation[k])}
\* the labels a drill-down into the evaluation shown under key passes: the
\* row and column labels of its published confusion matrix
ShownLabels(key) ==
    Range(panel_data.evaluation[key][1].confusion_matrices.default.classes)

\* the handler load_view for params type and options key, x, y, field, with
\* compareKey of the panel's view state (NONE: no comparison)
load_view(view_type, eval_key, x, y, field, eval_key2) ==
    LET doc == evaluations[eval_key][1]
        pred_field2 == IF eval_key2 # NONE
                       THEN evaluations[eval_key2][1].pred_field ELSE NONE
        gt_field2 == IF eval_key2 # NONE
                        /\ evaluations[eval_key2][1].gt_field # doc.gt_field
                     THEN evaluations[eval_key2][1].gt_field ELSE NONE
        missing == missing_in_state(panel_state)
        v == IF doc.type = "classification"
             THEN classification_view(doc, view_type, x, y, field,
                                      gt_field2, pred_field2)
             ELSE IF doc.type = "detection"
             THEN detection_view(doc, view_type, missing, x, y, field,
                                 gt_field2, pred_field2)
             ELSE << >>
    IN /\ IF view_type = "clear" THEN view' = ClearView
          ELSE /\ ~IsNone(evaluations[eval_key])
               /\ eval_key2 # NONE => ~IsNone(evaluations[eval_key2])
               /\ view' = IF IsNone(v) THEN view ELSE SetView(v[1])
       /\ UNCHANGED <<evaluations, store, panel_data, panel_state,
                      enable_caching, history>>
       /\ UnchangedMetrics

\* a dataset of two runs with results, the second run with its own missing
\* sentinel; the store may hold bundles cached by an earlier session
InitView ==
    /\ \E c \in [KeySet -> Configs] :
          evaluations = [k \in KeySet |->
              Some(RunDoc(k, IdOf[k], c[k].type, c[k].method,
                          IF k = Keys[1] THEN DEFAULT_MISSING ELSE "bg", TRUE))]
    /\ enable_caching \in BOOLEAN
    /\ \E cached \in SUBSET KeySet : store = StoreCaching(evaluations, cached)
    /\ panel_data = EmptyPanelData
    /\ panel_state = << >>
    /\ view = << >>
    /\ history = <<NoEvent, NoEvent>>
    /\ results = NoResults
    /\ info = NoInfo
    /\ out = NoOut
    /\ sessions = IdleSessions

NextView ==
    \/ \E k \in KeySet :
          load_evaluation(k, get_evaluation_id(evaluations, k), FALSE)
    \/ \E k \in KeySet : load_view("clear", k, NONE, NONE, NONE, NONE)
    \/ \E k \in Shown, k2 \in Shown \cup {NONE} : \E x \in ShownLabels(k) :
          load_view("class", k, x, NONE, NONE, k2)
    \/ \E k \in Shown : \E x, y \in ShownLabels(k) :
          load_view("matrix", k, x, y, NONE, NONE)
    \/ \E k \in Shown, f \in ViewFields :
          load_view("field", k, NONE, NONE, f, NONE)

SpecView == InitView /\ [][NextView]_vars

----------------------------------------------------------------------------
(* Claims about load_view, checked under SpecView *)

\* predicted labels with label = x and evaluation field = "fp"
FalsePositivesOf(doc, x) ==
    EvalView(doc.key, <<FilterLabels(doc.pred_field,
        AllOf(<<LabelIs("", x), FieldIs(doc.key, "fp")>>), TRUE)>>)
\* ground-truth labels with label = y and evaluation field = "fn"
FalseNegativesOf(doc, y) ==
    EvalView(doc.key, <<FilterLabels(doc.gt_field,
        AllOf(<<LabelIs("", y), FieldIs(doc.key, "fn")>>), TRUE)>>)
\* samples with a ground-truth label of class y and a predicted label of class x
SamplesWithBoth(doc, x, y) ==
    EvalView(doc.key,
        <<FilterLabels(doc.gt_field, AllOf(<<LabelIs("", y)>>), FALSE),
          FilterLabels(doc.pred_field, AllOf(<<LabelIs("", x)>>), FALSE),
          Match(AllOf(<<NonEmpty(LabelRoot(doc.gt_field)),
                        NonEmpty(LabelRoot(doc.pred_field))>>))>>)

\* C10: load_view with view type matrix and cell (x, y) on a detection
\* evaluation selects the false positives of class x when y is the
\* evaluation's missing sentinel, otherwise the false negatives of class y
\* when x is the sentinel, otherwise the samples with a ground-truth label y
\* and a predicted label x; on a segmentation evaluation it sets no view.
C10_MatrixDrillDown ==
    [][\A k \in Shown : \A x, y \in ShownLabels(k) :
          load_view("matrix", k, x, y, NONE, NONE) =>
             LET doc == evaluations[k][1]
             IN /\ doc.type = "detection" =>
                      view' = SetView(
                          IF y = doc.missing THEN FalsePositivesOf(doc, x)
                          ELSE IF x = doc.missing THEN FalseNegativesOf(doc, y)
                          ELSE SamplesWithBoth(doc, x, y))
                /\ doc.type = "segmentation" => view' = view
      ]_vars

\* C13: whenever load_evaluation has published the bundle of a supported
\* evaluation, computed or served from the cache, the panel state "missing"
\* is that evaluation's results.missing, so the drill-downs that follow
\* compare x and y with the sentinel of the evaluation shown.
C13_MissingIsOfShownEvaluation ==
    /\ Last.op = "load_evaluation"
    /\ Supported(Last.key)
    /\ ~IsNone(panel_data.evaluation[Last.key])
    => panel_state =
          Some(load_evaluation_results(evaluations[Last.key][1]).missing)

====
